---- MODULE Spec2Model ----
(***************************************************************************)
(* Model of the firewall rule parser (src/src/lib.rs).                     *)
(*                                                                         *)
(* parse_rules(input) runs the pest grammar `file` over the whole input    *)
(* text and then lowers the children of the `file` pair, one by one, into  *)
(* FirewallRule values.  The grammar is modelled character by character    *)
(* as a PEG (ordered choice, greedy repetition, no backtracking into a     *)
(* rule that has succeeded), with pest's implicit skipping of WHITESPACE   *)
(* and COMMENT between the elements of every non-atomic sequence and       *)
(* repetition.  Text is a sequence of one-character strings.               *)
(***************************************************************************)
EXTENDS Integers, Sequences, FiniteSets, TLC

VARIABLES
    written,    \* what the author of the rules file meant: lines and ending
    input,      \* the text handed to parse_rules (the rendering of written)
    pc,         \* position inside parse_rules: "start", "loop", "done"
    pairs,      \* file_pair.into_inner(): the children of the file pair
    idx,        \* index of the next child the for loop visits
    rules,      \* the Vec<FirewallRule> built so far
    result      \* what parse_rules returned (once pc = "done")

vars == <<written, input, pc, pairs, idx, rules, result>>

(***************************************************************************)
(* Characters and keywords                                                 *)
(***************************************************************************)
NL  == "\n"
CR  == "\r"
TAB == "\t"
SP  == " "
HASH == "#"

Digits == {"0", "1", "2", "3", "4", "5", "6", "7", "8", "9"}

Letters ==
    {"a", "b", "c", "d", "e", "f", "g", "h", "i", "j", "k", "l", "m",
     "n", "o", "p", "q", "r", "s", "t", "u", "v", "w", "x", "y", "z",
     "A", "B", "C", "D", "E", "F", "G", "H", "I", "J", "K", "L", "M",
     "N", "O", "P", "Q", "R", "S", "T", "U", "V", "W", "X", "Y", "Z"}

DigitValue(c) ==
    CASE c = "0" -> 0 [] c = "1" -> 1 [] c = "2" -> 2 [] c = "3" -> 3
      [] c = "4" -> 4 [] c = "5" -> 5 [] c = "6" -> 6 [] c = "7" -> 7
      [] c = "8" -> 8 [] c = "9" -> 9

K_allow    == <<"a", "l", "l", "o", "w">>
K_deny     == <<"d", "e", "n", "y">>
K_reject   == <<"r", "e", "j", "e", "c", "t">>
K_limit    == <<"l", "i", "m", "i", "t">>
K_in       == <<"i", "n">>
K_out      == <<"o", "u", "t">>
K_on       == <<"o", "n">>
K_from     == <<"f", "r", "o", "m">>
K_to       == <<"t", "o">>
K_port     == <<"p", "o", "r", "t">>
K_proto    == <<"p", "r", "o", "t", "o">>
K_any      == <<"a", "n", "y">>
K_internal == <<"i", "n", "t", "e", "r", "n", "a", "l">>
K_external == <<"e", "x", "t", "e", "r", "n", "a", "l">>
K_tcp      == <<"t", "c", "p">>
K_udp      == <<"u", "d", "p">>

(***************************************************************************)
(* PEG machinery.  A rule applied to text s at position i (1-based) gives  *)
(* a Match: ok, the position after the match, and the pairs it produced.   *)
(* Silent rules (WHITESPACE, NEWLINE, COMMENT) produce no pair: they give  *)
(* the position after the match, or 0 when they do not match.              *)
(***************************************************************************)
Fail == [ok |-> FALSE, pos |-> 0, pairs |-> <<>>]
Ok(p, ps) == [ok |-> TRUE, pos |-> p, pairs |-> ps]
Pair(r, t, inn) == [rule |-> r, text |-> t, inner |-> inn]

\* a literal "..." of the grammar at position i
Lit(s, i, lit) ==
    /\ i + Len(lit) - 1 <= Len(s)
    /\ SubSeq(s, i, i + Len(lit) - 1) = lit

\* ordered choice between literals: the first one that matches, or <<>>
RECURSIVE FirstLit(_, _, _)
FirstLit(s, i, lits) ==
    IF lits = <<>> THEN <<>>
    ELSE IF Lit(s, i, Head(lits)) THEN Head(lits)
    ELSE FirstLit(s, i, Tail(lits))

\* (c1 | c2 | ...)* over a character class: the position after the run
RECURSIVE TakeWhile(_, _, _)
TakeWhile(s, i, class) ==
    IF i <= Len(s) /\ s[i] \in class THEN TakeWhile(s, i + 1, class) ELSE i

WhitespaceChars == {SP, TAB}

WHITESPACE(s, i) == IF i <= Len(s) /\ s[i] \in WhitespaceChars THEN i + 1 ELSE 0

NEWLINE(s, i) ==
    IF Lit(s, i, <<CR, NL>>) THEN i + 2
    ELSE IF Lit(s, i, <<NL>>) THEN i + 1
    ELSE 0

\* (!NEWLINE ~ ANY)*
RECURSIVE CommentBody(_, _)
CommentBody(s, i) ==
    IF i > Len(s) \/ NEWLINE(s, i) # 0 THEN i ELSE CommentBody(s, i + 1)

COMMENT(s, i) == IF Lit(s, i, <<HASH>>) THEN CommentBody(s, i + 1) ELSE 0

\* WHITESPACE*
RECURSIVE SkipWhitespace(_, _)
SkipWhitespace(s, i) ==
    IF WHITESPACE(s, i) # 0 THEN SkipWhitespace(s, WHITESPACE(s, i)) ELSE i

\* (COMMENT ~ WHITESPACE*)*
RECURSIVE SkipComments(_, _)
SkipComments(s, i) ==
    IF COMMENT(s, i) # 0
    THEN SkipComments(s, SkipWhitespace(s, COMMENT(s, i)))
    ELSE i

\* what pest inserts at every ~ and between the iterations of * and + of a
\* non-atomic rule, the grammar defining both WHITESPACE and COMMENT:
\* WHITESPACE* ~ (COMMENT ~ WHITESPACE*)*
skip(s, i) == SkipComments(s, SkipWhitespace(s, i))

\* the pair of a rule that matched the text s[i..m.pos-1] with children
\* m.pairs, when its body matched (m)
Wrap(name, s, i, m) ==
    IF m.ok THEN Ok(m.pos, <<Pair(name, SubSeq(s, i, m.pos - 1), m.pairs)>>)
    ELSE Fail

\* a rule that is a choice between keywords, k the keyword FirstLit found
KeywordRule(name, s, i, k) ==
    IF k = <<>> THEN Fail ELSE Wrap(name, s, i, Ok(i + Len(k), <<>>))

\* an atomic rule class+ : j the position after the greedy run from i
RunRule(name, s, i, j) ==
    IF j = i THEN Fail ELSE Wrap(name, s, i, Ok(j, <<>>))

\* a | b
FirstOk(a, b) == IF a.ok THEN a ELSE b

\* e? : the match of e, or the empty match at i
Opt(r, i) == IF r.ok THEN r ELSE Ok(i, <<>>)

\* m ~ r : r was tried at skip(m.pos)
Join(m, r) == IF m.ok /\ r.ok THEN Ok(r.pos, m.pairs \o r.pairs) ELSE Fail

ActionKeywords == <<K_allow, K_deny, K_reject, K_limit>>

action(s, i) == KeywordRule("action", s, i, FirstLit(s, i, ActionKeywords))

DirectionKeywords == <<K_in, K_out>>

direction(s, i) ==
    KeywordRule("direction", s, i, FirstLit(s, i, DirectionKeywords))

IdentChars == Letters \cup Digits \cup {"_", "-"}

ident(s, i) == RunRule("ident", s, i, TakeWhile(s, i, IdentChars))

IpChars == Digits \cup {".", "/"}

ip(s, i) == RunRule("ip", s, i, TakeWhile(s, i, IpChars))

AddrKeywords == <<K_any, K_internal, K_external>>

\* "any" | "internal" | "external" | ip : the keywords leave no inner pair
addr(s, i) ==
    FirstOk(KeywordRule("addr", s, i, FirstLit(s, i, AddrKeywords)),
            Wrap("addr", s, i, ip(s, i)))

port_number(s, i) == RunRule("port_number", s, i, TakeWhile(s, i, Digits))

port_clause(s, i) ==
    IF Lit(s, i, K_port)
    THEN Wrap("port_clause", s, i, port_number(s, skip(s, i + Len(K_port))))
    ELSE Fail

ProtoKeywords == <<K_tcp, K_udp, K_any>>

proto(s, i) == KeywordRule("proto", s, i, FirstLit(s, i, ProtoKeywords))

proto_clause(s, i) ==
    IF Lit(s, i, K_proto)
    THEN Wrap("proto_clause", s, i, proto(s, skip(s, i + Len(K_proto))))
    ELSE Fail

interface_clause(s, i) ==
    IF Lit(s, i, K_on)
    THEN Wrap("interface_clause", s, i, ident(s, skip(s, i + Len(K_on))))
    ELSE Fail

from_clause(s, i) ==
    IF Lit(s, i, K_from)
    THEN Wrap("from_clause", s, i, addr(s, skip(s, i + Len(K_from))))
    ELSE Fail

to_clause(s, i) ==
    IF Lit(s, i, K_to)
    THEN Wrap("to_clause", s, i, addr(s, skip(s, i + Len(K_to))))
    ELSE Fail

\* from_clause | to_clause | port_clause | proto_clause
AnyClause(s, i) ==
    FirstOk(from_clause(s, i),
            FirstOk(to_clause(s, i),
                    FirstOk(port_clause(s, i), proto_clause(s, i))))

\* the iterations of (...)+ after the first: skip ~ clause, repeated; a
\* failed iteration gives back what it skipped.  m is the match so far, r
\* the next iteration's.
RECURSIVE MoreClauses(_, _)
NextClause(s, m, r) == IF r.ok THEN MoreClauses(s, Join(m, r)) ELSE m
MoreClauses(s, m) == NextClause(s, m, AnyClause(s, skip(s, m.pos)))

\* a variant of ClausesPlus that matches no clause at all: (...)*
ClausesStar(s, i) ==
    IF AnyClause(s, i).ok THEN MoreClauses(s, AnyClause(s, i)) ELSE Ok(i, <<>>)

\* (from_clause | to_clause | port_clause | proto_clause)+
ClausesPlus(s, i) == IF AnyClause(s, i).ok THEN MoreClauses(s, AnyClause(s, i)) ELSE Fail

\* a variant of ThenClausesPlus for a grammar whose clauses are (...)*
ThenClausesStar(s, m) ==
    IF m.ok THEN Join(m, Opt(ClausesPlus(s, skip(s, m.pos)), skip(s, m.pos))) ELSE Fail

\* m ~ direction?, m ~ interface_clause?, m ~ (...)+ : each after the skip
ThenDirectionOpt(s, m) ==
    IF m.ok THEN Join(m, Opt(direction(s, skip(s, m.pos)), skip(s, m.pos))) ELSE Fail
ThenInterfaceOpt(s, m) ==
    IF m.ok THEN Join(m, Opt(interface_clause(s, skip(s, m.pos)), skip(s, m.pos)))
    ELSE Fail
ThenClausesPlus(s, m) ==
    IF m.ok THEN Join(m, ClausesPlus(s, skip(s, m.pos))) ELSE Fail

\* addr_rule = { action ~ direction? ~ interface_clause? ~ (...)+ }
addr_rule(s, i) ==
    Wrap("addr_rule", s, i,
         ThenClausesPlus(s, ThenInterfaceOpt(s, ThenDirectionOpt(s, action(s, i)))))

ThenIdent(s, m) == IF m.ok THEN Join(m, ident(s, skip(s, m.pos))) ELSE Fail

\* service_rule = { action ~ ident }
service_rule(s, i) == Wrap("service_rule", s, i, ThenIdent(s, action(s, i)))

\* COMMENT? at p
CommentOpt(s, p) == IF COMMENT(s, p) # 0 THEN COMMENT(s, p) ELSE p

\* m ~ COMMENT?
ThenCommentOpt(s, m) ==
    IF m.ok THEN Ok(CommentOpt(s, skip(s, m.pos)), m.pairs) ELSE Fail

\* a silent rule as a match
Silent(p) == IF p = 0 THEN Fail ELSE Ok(p, <<>>)

\* line = _{ (addr_rule | service_rule) ~ COMMENT? | COMMENT }
line(s, i) ==
    FirstOk(ThenCommentOpt(s, FirstOk(addr_rule(s, i), service_rule(s, i))),
            Silent(COMMENT(s, i)))

\* m ~ NEWLINE
ThenNewline(s, m) == Join(m, Silent(NEWLINE(s, skip(s, m.pos))))

\* line? ~ NEWLINE
LineNewline(s, i) == ThenNewline(s, Opt(line(s, i), i))

\* (line? ~ NEWLINE)* : the first iteration at m.pos, the later ones after
\* the implicit skip; a failed iteration gives back what it consumed
RECURSIVE FileLines(_, _, _)
NextLine(s, m, r) == IF r.ok THEN FileLines(s, Join(m, r), FALSE) ELSE m
FileLines(s, m, first) ==
    NextLine(s, m, LineNewline(s, IF first THEN m.pos ELSE skip(s, m.pos)))

\* a variant of ThenEOI without the implicit skip before EOI
ThenEOIAtOnce(s, ls) ==
    IF ls.pos = Len(s) + 1
    THEN Ok(Len(s) + 1, ls.pairs \o <<Pair("EOI", <<>>, <<>>)>>)
    ELSE Fail

\* ... ~ EOI, ls the match of SOI ~ (line? ~ NEWLINE)*
ThenEOI(s, ls) ==
    IF skip(s, ls.pos) = Len(s) + 1
    THEN Ok(Len(s) + 1, ls.pairs \o <<Pair("EOI", <<>>, <<>>)>>)
    ELSE Fail

\* file = { SOI ~ (line? ~ NEWLINE)* ~ EOI }
file(s) == Wrap("file", s, 1, ThenEOI(s, FileLines(s, Ok(skip(s, 1), <<>>), TRUE)))

(***************************************************************************)
(* Lowering (lib.rs 88-237).  A ParseResult is [ok, val] or [ok, err];     *)
(* Option<T> is <<>> (None) or <<x>> (Some(x)).                            *)
(***************************************************************************)
None == <<>>
Some(x) == <<x>>

Good(v) == [ok |-> TRUE, val |-> v]
Bad(e) == [ok |-> FALSE, err |-> e]

\* ParseError::Pest: the grammar rejected the input
PestError == [kind |-> "Pest"]
\* ParseError::Message(format!("{msg}: {text}")) and the fixed messages
Message(m, t) == [kind |-> "Message", msg |-> m, text |-> t]

\* a variant of parse_action without the "limit" arm
parse_action_three(text) ==
    CASE text = K_allow  -> Good("Allow")
      [] text = K_deny   -> Good("Deny")
      [] text = K_reject -> Good("Reject")
      [] OTHER -> Bad(Message("invalid action", text))

parse_action(text) ==
    CASE text = K_allow  -> Good("Allow")
      [] text = K_deny   -> Good("Deny")
      [] text = K_reject -> Good("Reject")
      [] text = K_limit  -> Good("Limit")
      [] OTHER -> Bad(Message("invalid action", text))

parse_direction(text) ==
    CASE text = K_in  -> Good("In")
      [] text = K_out -> Good("Out")
      [] OTHER -> Bad(Message("invalid direction", text))

parse_protocol(text) ==
    CASE text = K_tcp -> Good("Tcp")
      [] text = K_udp -> Good("Udp")
      [] text = K_any -> Good("Any")
      [] OTHER -> Bad(Message("invalid protocol", text))

AddressAny == [type |-> "any"]
AddressInternal == [type |-> "internal"]
AddressExternal == [type |-> "external"]
IpCidr(text) == [type |-> "ipcidr", value |-> text]

\* a variant of parse_address without the keyword arms
parse_address_verbatim(pair) == Good(IpCidr(pair.text))

parse_address(pair) ==
    CASE pair.text = K_any      -> Good(AddressAny)
      [] pair.text = K_internal -> Good(AddressInternal)
      [] pair.text = K_external -> Good(AddressExternal)
      [] OTHER -> Good(IpCidr(pair.text))

\* u16::MAX
U16Max == 65535

\* a variant of CheckedDigits with wrapping arithmetic
RECURSIVE WrappingDigits(_, _, _)
WrappingDigits(text, k, acc) ==
    IF k > Len(text) THEN acc
    ELSE WrappingDigits(text, k + 1, (acc * 10 + DigitValue(text[k])) % 65536)

\* str::parse::<u16> on a digit run: digit by digit with checked_mul and
\* checked_add, so the value never wraps; -1 stands for Err(PosOverflow)
RECURSIVE CheckedDigits(_, _, _)
CheckedDigits(text, k, acc) ==
    IF k > Len(text) THEN acc
    ELSE IF text[k] \notin Digits THEN -1
    ELSE LET next == acc * 10 + DigitValue(text[k])
         IN  IF next > U16Max THEN -1 ELSE CheckedDigits(text, k + 1, next)

FromStrU16(text) == IF text = <<>> THEN -1 ELSE CheckedDigits(text, 1, 0)

parse_port(text) ==
    IF FromStrU16(text) >= 0
    THEN Good(FromStrU16(text))
    ELSE Bad(Message("invalid port value", text))

ServiceRule(a, s) == [type |-> "service", action |-> a, service |-> s]

parse_service_rule(pair) ==
    IF Len(pair.inner) < 1
    THEN Bad(Message("service rule missing action", <<>>))
    ELSE IF Len(pair.inner) < 2
    THEN Bad(Message("service rule missing identifier", <<>>))
    ELSE LET a == parse_action(pair.inner[1].text)
         IN  IF ~a.ok THEN a
             ELSE Good(ServiceRule(a.val, pair.inner[2].text))

\* the AddressRule parse_address_rule starts from: every option None
NewAddressRule(a) ==
    [type |-> "address", action |-> a, direction |-> None, interface |-> None,
     from |-> None, to |-> None, port |-> None, proto |-> None]

\* sub_pair.into_inner().next().ok_or_else(...)
FirstInner(sub, what) ==
    IF sub.inner = <<>> THEN Bad(Message(what, <<>>)) ELSE Good(sub.inner[1])

\* one iteration of the for loop of parse_address_rule: the rule after the
\* assignment, or the error the iteration returns
LowerSubPair(rule, sub) ==
    CASE sub.rule = "direction" ->
            LET d == parse_direction(sub.text)
            IN  IF d.ok THEN Good([rule EXCEPT !.direction = Some(d.val)]) ELSE d
      [] sub.rule = "interface_clause" ->
            LET n == FirstInner(sub, "interface clause missing identifier")
            IN  IF n.ok THEN Good([rule EXCEPT !.interface = Some(n.val.text)])
                ELSE n
      [] sub.rule = "from_clause" ->
            LET a == FirstInner(sub, "from clause missing address")
            IN  IF a.ok
                THEN Good([rule EXCEPT !.from = Some(parse_address(a.val).val)])
                ELSE a
      [] sub.rule = "to_clause" ->
            LET a == FirstInner(sub, "to clause missing address")
            IN  IF a.ok
                THEN Good([rule EXCEPT !.to = Some(parse_address(a.val).val)])
                ELSE a
      [] sub.rule = "port_clause" ->
            LET n == FirstInner(sub, "port clause missing number")
                p == parse_port(n.val.text)
            IN  IF ~n.ok THEN n
                ELSE IF p.ok THEN Good([rule EXCEPT !.port = Some(p.val)])
                ELSE p
      [] sub.rule = "proto_clause" ->
            LET n == FirstInner(sub, "proto clause missing proto")
                p == parse_protocol(n.val.text)
            IN  IF ~n.ok THEN n
                ELSE IF p.ok THEN Good([rule EXCEPT !.proto = Some(p.val)])
                ELSE p
      [] OTHER -> Bad(Message("unexpected rule inside addr_rule", sub.rule))

\* a variant of LowerSubPairs that visits the sub-pairs last to first
RECURSIVE LowerSubPairsReversed(_, _, _)
LowerSubPairsReversed(rule, subs, k) ==
    IF k > Len(subs) THEN Good(rule)
    ELSE IF LowerSubPair(rule, subs[Len(subs) + 2 - k]).ok
    THEN LowerSubPairsReversed(LowerSubPair(rule, subs[Len(subs) + 2 - k]).val,
                               subs, k + 1)
    ELSE LowerSubPair(rule, subs[Len(subs) + 2 - k])

\* the for loop over the remaining sub-pairs, in their order; the first
\* error ends it
RECURSIVE LowerSubPairs(_, _, _)
LowerSubPairs(rule, subs, k) ==
    IF k > Len(subs) THEN Good(rule)
    ELSE LET r == LowerSubPair(rule, subs[k])
         IN  IF r.ok THEN LowerSubPairs(r.val, subs, k + 1) ELSE r

parse_address_rule(pair) ==
    IF Len(pair.inner) < 1
    THEN Bad(Message("address rule missing action", <<>>))
    ELSE LET a == parse_action(pair.inner[1].text)
         IN  IF ~a.ok THEN a
             ELSE LowerSubPairs(NewAddressRule(a.val), pair.inner, 2)

(***************************************************************************)
(* The rules files the model feeds to parse_rules.  A file is described    *)
(* by what its author wrote, line by line, and rendered to text; the       *)
(* parser only ever sees the text.                                         *)
(***************************************************************************)
MaxClauses == 3     \* clauses per address line, drawn freely from CoreClauses
MaxRaw     == 3     \* tokens per free-form line
MaxLines   == 3     \* lines per multi-line file

W_ssh       == <<"s", "s", "h">>
W_my_svc    == <<"m", "y", "_", "s", "v", "c", "-", "1">>
W_eth0      == <<"e", "t", "h", "0">>
W_port22    == <<"p", "o", "r", "t", "2", "2">>
W_port22x   == <<"p", "o", "r", "t", "2", "2", "x">>
W_port99999 == <<"p", "o", "r", "t", "9", "9", "9", "9", "9">>
W_toany     == <<"t", "o", "a", "n", "y">>
W_into10    == <<"i", "n", "t", "o", "1", "0">>
W_80        == <<"8", "0">>
W_block     == <<"b", "l", "o", "c", "k">>
N_22        == <<"2", "2">>
N_443       == <<"4", "4", "3">>
N_0         == <<"0">>
N_007       == <<"0", "0", "7">>
N_65535     == <<"6", "5", "5", "3", "5">>
N_65536     == <<"6", "5", "5", "3", "6">>
N_70000     == <<"7", "0", "0", "0", "0">>
N_0065535   == <<"0", "0", "6", "5", "5", "3", "5">>
N_0065536   == <<"0", "0", "6", "5", "5", "3", "6">>
N_131094    == <<"1", "3", "1", "0", "9", "4">>
A_1_2_3     == <<"1", ".", "2", "/", "3">>
A_8_8       == <<"8", ".", "8">>
CommentText == <<"#", " ", "a", "l", "l", "o", "w", " ", "x">>

Cl(c, v) == [c |-> c, v |-> v]

\* a line as its author meant it; the unused fields of a kind are empty
AddrLine(a, d, n, cs, cmt) ==
    [k |-> "addr", action |-> a, dir |-> d, iface |-> n, clauses |-> cs,
     name |-> <<>>, cmt |-> cmt]
SvcLine(a, s, cmt) ==
    [k |-> "svc", action |-> a, dir |-> <<>>, iface |-> <<>>, clauses |-> <<>>,
     name |-> s, cmt |-> cmt]
\* a blank line (name: its spaces and tabs), a comment-only line
BlankLine(ws) ==
    [k |-> "blank", action |-> <<>>, dir |-> <<>>, iface |-> <<>>,
     clauses |-> <<>>, name |-> ws, cmt |-> FALSE]
CommentLine ==
    [k |-> "comment", action |-> <<>>, dir |-> <<>>, iface |-> <<>>,
     clauses |-> <<>>, name |-> <<>>, cmt |-> TRUE]
\* free-form text: tokens (clauses) written one after the other
RawLine(toks) ==
    [k |-> "raw", action |-> <<>>, dir |-> <<>>, iface |-> <<>>,
     clauses |-> toks, name |-> <<>>, cmt |-> FALSE]

ClauseKeyword(c) ==
    CASE c = "from" -> K_from [] c = "to" -> K_to
      [] c = "port" -> K_port [] c = "proto" -> K_proto

RECURSIVE RenderClauses(_)
RenderClauses(cs) ==
    IF cs = <<>> THEN <<>>
    ELSE <<SP>> \o ClauseKeyword(Head(cs).c) \o <<SP>> \o Head(cs).v
         \o RenderClauses(Tail(cs))

RECURSIVE Concat(_)
Concat(toks) == IF toks = <<>> THEN <<>> ELSE Head(toks) \o Concat(Tail(toks))

RenderLine(l) ==
    CASE l.k = "addr" ->
            l.action
            \o (IF l.dir = <<>> THEN <<>> ELSE <<SP>> \o l.dir)
            \o (IF l.iface = <<>> THEN <<>> ELSE <<SP>> \o K_on \o <<SP>> \o l.iface)
            \o RenderClauses(l.clauses)
            \o (IF l.cmt THEN <<SP, TAB>> \o CommentText ELSE <<>>)
      [] l.k = "svc" ->
            l.action \o <<SP>> \o l.name
            \o (IF l.cmt THEN <<SP>> \o CommentText ELSE <<>>)
      [] l.k = "blank" -> l.name
      [] l.k = "comment" -> CommentText
      [] l.k = "raw" -> Concat(l.clauses)

\* every line but the last ends with eol; the last one does when nl
RECURSIVE RenderLines(_, _, _)
RenderLines(ls, eol, nl) ==
    IF ls = <<>> THEN <<>>
    ELSE RenderLine(Head(ls))
         \o (IF Len(ls) > 1 \/ nl THEN eol ELSE <<>>)
         \o RenderLines(Tail(ls), eol, nl)

Doc(ls, eol, nl) == [lines |-> ls, eol |-> eol, nl |-> nl]
RenderDoc(d) == RenderLines(d.lines, d.eol, d.nl)

SeqUpTo(S, n) == UNION {[1..m -> S] : m \in 0..n}

Actions == {K_allow, K_deny, K_reject, K_limit}

\* action, direction, interface of the address lines
Prefixes ==
    {<<K_allow, <<>>, <<>>>>, <<K_deny, K_in, <<>>>>, <<K_reject, K_out, <<>>>>,
     <<K_limit, <<>>, W_eth0>>, <<K_allow, K_in, W_eth0>>, <<K_reject, K_out, K_from>>}

CoreClauses ==
    {Cl("from", K_internal), Cl("from", A_1_2_3), Cl("to", K_any),
     Cl("to", A_8_8), Cl("port", N_22), Cl("port", N_443),
     Cl("port", N_65536), Cl("proto", K_tcp), Cl("proto", K_udp)}

ExtraClauses ==
    {Cl("from", K_any), Cl("from", K_external), Cl("to", K_internal),
     Cl("to", K_external), Cl("proto", K_any), Cl("port", N_0),
     Cl("port", N_007), Cl("port", N_65535), Cl("port", N_70000),
     Cl("port", N_0065535), Cl("port", N_0065536), Cl("port", N_131094)}

\* one clause of each kind, in every order
FourClauses ==
    {cs \in [1..4 -> {Cl("from", K_internal), Cl("to", A_8_8),
                      Cl("port", N_443), Cl("proto", K_tcp)}] :
        \A i, j \in 1..4 : i # j => cs[i] # cs[j]}

\* the prefixes of the lines whose clauses are drawn freely
FewPrefixes ==
    {<<K_allow, <<>>, <<>>>>, <<K_deny, K_in, <<>>>>, <<K_limit, <<>>, W_eth0>>,
     <<K_reject, K_out, K_from>>}

AddrLines ==
    {AddrLine(p[1], p[2], p[3], cs, FALSE) :
        p \in FewPrefixes, cs \in SeqUpTo(CoreClauses, MaxClauses)}
    \cup
    {AddrLine(p[1], p[2], p[3], cs, FALSE) :
        p \in Prefixes,
        cs \in {<<>>} \cup FourClauses \cup {<<c>> : c \in ExtraClauses}}

ServiceNames ==
    {W_ssh, W_my_svc, W_80, K_in, K_out, K_on, K_internal, K_allow, K_proto,
     W_port22, W_port22x, W_port99999, W_toany, W_into10}

SvcLines == {SvcLine(a, s, FALSE) : a \in Actions, s \in ServiceNames}

RawTokens ==
    {K_allow, K_in, K_on, K_port, K_to, K_any, N_22, <<SP>>, <<HASH>>, <<"x">>}

RawLines == {RawLine(ts) : ts \in SeqUpTo(RawTokens, MaxRaw)}

\* files of one newline-terminated line
OneLineDocs ==
    {Doc(<<l>>, <<NL>>, TRUE) : l \in AddrLines \cup SvcLines \cup RawLines}

\* the lines of the multi-line files: rules with and without a trailing
\* comment, two whose port is out of range, one the grammar rejects, blank
\* lines and a comment-only line
FewLines ==
    {SvcLine(K_deny, W_my_svc, TRUE),
     AddrLine(K_reject, K_in, <<>>, <<Cl("from", K_internal), Cl("port", N_443)>>, FALSE),
     AddrLine(K_limit, K_out, <<>>, <<Cl("to", A_8_8), Cl("port", N_70000)>>, FALSE),
     AddrLine(K_allow, <<>>, <<>>, <<Cl("port", N_65536)>>, TRUE),
     RawLine(<<W_block, <<SP>>, W_ssh>>),
     BlankLine(<<>>),
     BlankLine(<<SP, TAB>>),
     CommentLine}

ManyLineDocs ==
    {Doc(ls, eol, nl) :
        ls \in SeqUpTo(FewLines, MaxLines), eol \in {<<NL>>, <<CR, NL>>},
        nl \in BOOLEAN}

Docs == OneLineDocs \cup ManyLineDocs

(***************************************************************************)
(* parse_rules as a state machine: the grammar run, then one step per      *)
(* child of the file pair, then the return.                                *)
(***************************************************************************)
NoResult == Bad([kind |-> "none"])

\* a variant of Push that inserts at the front
PushFront(rs, r) == <<r>> \o rs

\* rules.push(r)
Push(rs, r) == Append(rs, r)

Init ==
    /\ written \in Docs
    /\ input = RenderDoc(written)
    /\ pc = "start"
    /\ pairs = <<>>
    /\ idx = 1
    /\ rules = <<>>
    /\ result = NoResult

Return(r) ==
    /\ result' = r
    /\ pc' = "done"
    /\ UNCHANGED <<written, input, pairs, idx, rules>>

\* FirewallGrammar::parse(Rule::file, input)? and file_pairs.next(), r the
\* outcome of the grammar
AfterGrammar(r) ==
    IF ~r.ok THEN Return(Bad(PestError))
    ELSE IF r.pairs = <<>>
    THEN Return(Bad(Message("expected file pair to be present", <<>>)))
    ELSE /\ pairs' = r.pairs[1].inner
         /\ pc' = "loop"
         /\ UNCHANGED <<written, input, idx, rules, result>>

Parse ==
    /\ pc = "start"
    /\ AfterGrammar(file(input))

\* a variant of Step that drops a rule that fails to lower and goes on
StepPastErrors(r) ==
    /\ rules' = IF r.ok THEN Push(rules, r.val) ELSE rules
    /\ idx' = idx + 1
    /\ UNCHANGED <<written, input, pc, pairs, result>>

\* one iteration of the for loop that pushes the lowered rule r
Step(r) ==
    IF r.ok
    THEN /\ rules' = Push(rules, r.val)
         /\ idx' = idx + 1
         /\ UNCHANGED <<written, input, pc, pairs, result>>
    ELSE Return(Bad(r.err))

LowerService ==
    /\ pc = "loop" /\ idx <= Len(pairs)
    /\ pairs[idx].rule = "service_rule"
    /\ Step(parse_service_rule(pairs[idx]))

LowerAddress ==
    /\ pc = "loop" /\ idx <= Len(pairs)
    /\ pairs[idx].rule = "addr_rule"
    /\ Step(parse_address_rule(pairs[idx]))

\* Rule::line | Rule::NEWLINE | Rule::COMMENT | Rule::EOI => {}, and the
\* catch-all arm
SkipPair ==
    /\ pc = "loop" /\ idx <= Len(pairs)
    /\ pairs[idx].rule \notin {"service_rule", "addr_rule"}
    /\ IF pairs[idx].rule \in {"line", "NEWLINE", "COMMENT", "EOI"}
       THEN /\ idx' = idx + 1
            /\ UNCHANGED <<written, input, pc, pairs, rules, result>>
       ELSE Return(Bad(Message("unexpected rule inside file", pairs[idx].rule)))

\* Ok(rules)
Finish ==
    /\ pc = "loop" /\ idx > Len(pairs)
    /\ Return(Good(rules))

Next == Parse \/ LowerService \/ LowerAddress \/ SkipPair \/ Finish

Spec == Init /\ [][Next]_vars

(***************************************************************************)
(* What the claims expect, computed from what the author wrote and never   *)
(* from the text or the parser.                                            *)
(***************************************************************************)
Done == pc = "done"

ActionName(kw) ==
    CASE kw = K_allow -> "Allow" [] kw = K_deny -> "Deny"
      [] kw = K_reject -> "Reject" [] kw = K_limit -> "Limit"

DirectionName(kw) == CASE kw = K_in -> "In" [] kw = K_out -> "Out"

ProtocolName(kw) ==
    CASE kw = K_tcp -> "Tcp" [] kw = K_udp -> "Udp" [] kw = K_any -> "Any"

AddressOf(v) ==
    CASE v = K_any -> [type |-> "any"]
      [] v = K_internal -> [type |-> "internal"]
      [] v = K_external -> [type |-> "external"]
      [] OTHER -> [type |-> "ipcidr", value |-> v]

\* the number a digit run denotes, of any size
RECURSIVE NumberOf(_)
NumberOf(ds) ==
    IF ds = <<>> THEN 0
    ELSE NumberOf(SubSeq(ds, 1, Len(ds) - 1)) * 10 + DigitValue(ds[Len(ds)])

ClauseValue(cl) ==
    CASE cl.c = "from"  -> AddressOf(cl.v)
      [] cl.c = "to"    -> AddressOf(cl.v)
      [] cl.c = "port"  -> NumberOf(cl.v)
      [] cl.c = "proto" -> ProtocolName(cl.v)

KindCount(cs, c) == Cardinality({i \in 1..Len(cs) : cs[i].c = c})

\* the field of kind c: None without a clause of that kind, else the value
\* of the last one
RECURSIVE LastOf(_, _)
LastOf(cs, c) ==
    IF cs = <<>> THEN <<>>
    ELSE IF cs[Len(cs)].c = c THEN <<ClauseValue(cs[Len(cs)])>>
    ELSE LastOf(SubSeq(cs, 1, Len(cs) - 1), c)

ExpectedAddress(l) ==
    [type |-> "address",
     action |-> ActionName(l.action),
     direction |-> IF l.dir = <<>> THEN <<>> ELSE <<DirectionName(l.dir)>>,
     interface |-> IF l.iface = <<>> THEN <<>> ELSE <<l.iface>>,
     from |-> LastOf(l.clauses, "from"),
     to |-> LastOf(l.clauses, "to"),
     port |-> LastOf(l.clauses, "port"),
     proto |-> LastOf(l.clauses, "proto")]

ExpectedService(l) ==
    [type |-> "service", action |-> ActionName(l.action), service |-> l.name]

Kinds == {"from", "to", "port", "proto"}

IsRuleLine(l) == l.k = "svc" \/ (l.k = "addr" /\ l.clauses # <<>>)
\* an address line with at least one clause
IsAddressLine(l) == l.k = "addr" /\ l.clauses # <<>>
\* action [direction] [on ident] and nothing else
IsBareLine(l) == l.k = "addr" /\ l.clauses = <<>>
EachKindOnce(l) == \A c \in Kinds : KindCount(l.clauses, c) <= 1
SomeKindTwice(l) == \E c \in Kinds : KindCount(l.clauses, c) >= 2
PortsInRange(l) ==
    \A i \in 1..Len(l.clauses) :
        l.clauses[i].c = "port" => NumberOf(l.clauses[i].v) <= 65535
PortOutOfRange(l) == l.k = "addr" /\ ~PortsInRange(l)

\* a file of one newline-terminated line, and that line
OneLine == Len(written.lines) = 1 /\ written.nl
TheLine == written.lines[1]
LastLine == written.lines[Len(written.lines)]

\* the rule lines of the file, in order
RECURSIVE RuleLines(_)
RuleLines(ls) ==
    IF ls = <<>> THEN <<>>
    ELSE (IF IsRuleLine(Head(ls)) THEN <<Head(ls)>> ELSE <<>>) \o RuleLines(Tail(ls))

\* every line is a service line, an address line with its clauses, a blank
\* line or a comment-only line
Structured ==
    \A i \in 1..Len(written.lines) :
        written.lines[i].k # "raw" /\ ~IsBareLine(written.lines[i])

Accepted == Done /\ result.ok
SyntaxError == Done /\ ~result.ok /\ result.err.kind = "Pest"
PortError(ds) ==
    /\ Done /\ ~result.ok
    /\ result.err = [kind |-> "Message", msg |-> "invalid port value", text |-> ds]

(***************************************************************************)
(* The claims                                                              *)
(***************************************************************************)

\* C1: an accepted file yields exactly one rule per rule line, in the order
\* of those lines; blank lines, comment-only lines and trailing comments add
\* no entry and leave the rule of their line as it is without them (the
\* expected rule of a line does not read its comment).
C1_OneRulePerRuleLine ==
    Accepted /\ Structured =>
        /\ Len(result.val) = Len(RuleLines(written.lines))
        /\ \A k \in 1..Len(result.val) :
              /\ result.val[k].action = ActionName(RuleLines(written.lines)[k].action)
              /\ RuleLines(written.lines)[k].k = "addr"
                    => result.val[k] = ExpectedAddress(RuleLines(written.lines)[k])
              /\ result.val[k].type = "service"
                    => result.val[k] = ExpectedService(RuleLines(written.lines)[k])

\* C1 witness: an accepted file of three lines, two of them rules (one with
\* a trailing comment) in different kinds, the third blank or a comment
C1_Witness ==
    /\ Accepted
    /\ Len(written.lines) = 3
    /\ Len(result.val) = 2
    /\ result.val[1].type # result.val[2].type
    /\ \E i \in 1..3 : written.lines[i].k \in {"blank", "comment"}
    /\ \E i \in 1..3 : IsRuleLine(written.lines[i]) /\ written.lines[i].cmt

\* C2: the file "a s\n", a an action keyword and s an identifier, yields
\* exactly one rule, the Service rule of a and s.
C2_IdentifierIsService ==
    Done /\ OneLine /\ TheLine.k = "svc" /\ ~TheLine.cmt /\ written.eol = <<NL>> =>
        result.ok /\ result.val = <<ExpectedService(TheLine)>>

\* C3 as stated: an address line whose clauses occur at most once each
\* yields one Address rule, each field holding the value of its clause (the
\* number of the port digits, whatever it is) and None without a clause.
C3_AsStated ==
    Done /\ OneLine /\ IsAddressLine(TheLine) /\ EachKindOnce(TheLine) =>
        result.ok /\ result.val = <<ExpectedAddress(TheLine)>>

\* C3 amended: the same for the lines whose port, if any, is at most 65535.
C3_ClausesOnceEach ==
    Done /\ OneLine /\ IsAddressLine(TheLine) /\ EachKindOnce(TheLine)
         /\ PortsInRange(TheLine) =>
        result.ok /\ result.val = <<ExpectedAddress(TheLine)>>

\* C3 witness: a line with direction, interface and all four clauses was
\* lowered
C3_Witness ==
    /\ Accepted /\ OneLine /\ IsAddressLine(TheLine) /\ EachKindOnce(TheLine)
    /\ Len(TheLine.clauses) = 4 /\ TheLine.dir # <<>> /\ TheLine.iface # <<>>
    /\ result.val[1].type = "address"

\* C4 as stated: a line of an action, an optional direction and an optional
\* interface clause, with no other clause, makes parse_rules fail.
C4_AsStated == Done /\ OneLine /\ IsBareLine(TheLine) => ~result.ok

\* C4 amended: such a line is a syntax error, except the line of an action
\* and a direction alone, which is the Service rule named after the
\* direction word; it is never an Address rule.
C4_BareLine ==
    Done /\ OneLine /\ IsBareLine(TheLine) =>
        IF TheLine.dir # <<>> /\ TheLine.iface = <<>>
        THEN /\ result.ok
             /\ result.val = <<[type |-> "service",
                                action |-> ActionName(TheLine.action),
                                service |-> TheLine.dir]>>
        ELSE SyntaxError

\* C4 witness: action, direction and interface alone were rejected
C4_Witness ==
    /\ SyntaxError /\ OneLine /\ IsBareLine(TheLine)
    /\ TheLine.dir # <<>> /\ TheLine.iface # <<>>

\* C5: no Address rule that parse_rules builds, for any input, has all of
\* from, to, port and proto None.
C5_AddressRuleHasClause ==
    \A k \in 1..Len(rules) :
        rules[k].type = "address" =>
            ~(/\ rules[k].from = None /\ rules[k].to = None
              /\ rules[k].port = None /\ rules[k].proto = None)

\* C5 witness: free-form text was accepted as an Address rule with nothing
\* but one clause
C5_Witness ==
    /\ Accepted /\ OneLine /\ TheLine.k = "raw" /\ Len(result.val) = 1
    /\ result.val[1].type = "address"
    /\ result.val[1].direction = None /\ result.val[1].interface = None
    /\ result.val[1].from = None /\ result.val[1].port = None
    /\ result.val[1].proto = None

\* the digits of the first port clause of a line
PortDigits(l) ==
    l.clauses[CHOOSE i \in 1..Len(l.clauses) :
                 /\ l.clauses[i].c = "port"
                 /\ \A j \in 1..(i - 1) : l.clauses[j].c # "port"].v

\* C6: with one port clause of value v, the rule's port is v when
\* v <= 65535, and parse_rules fails with the message error "invalid port
\* value" when v > 65535; never a wrapped port, never a syntax error.
C6_PortRange ==
    Done /\ OneLine /\ IsAddressLine(TheLine) /\ KindCount(TheLine.clauses, "port") = 1 =>
        IF NumberOf(PortDigits(TheLine)) <= 65535
        THEN /\ result.ok /\ Len(result.val) = 1
             /\ result.val[1].port = <<NumberOf(PortDigits(TheLine))>>
        ELSE PortError(PortDigits(TheLine))

\* C6 witness: a port written with leading zeros was found out of range
C6_Witness == OneLine /\ IsAddressLine(TheLine) /\ PortError(N_0065536)

\* a line no production of the grammar matches: it starts with a word that
\* is no action keyword
GrammarRejects(l) == l.k = "raw" /\ l.clauses # <<>> /\ l.clauses[1] = W_block
Fails(l) == GrammarRejects(l) \/ PortOutOfRange(l)
FailingLines == {i \in 1..Len(written.lines) : Fails(written.lines[i])}
FirstFailing == CHOOSE i \in FailingLines : \A j \in FailingLines : i <= j
\* the earliest line whose port is out of range
FirstPortOutOfRange ==
    CHOOSE i \in FailingLines :
        /\ PortOutOfRange(written.lines[i])
        /\ \A j \in FailingLines : PortOutOfRange(written.lines[j]) => i <= j

\* C7 as stated: with more than one failing line, the error is the one of
\* the earliest failing line, the semantic one when that line's port is out
\* of range.
C7_AsStated ==
    Done /\ written.nl /\ Cardinality(FailingLines) >= 2 =>
        IF PortOutOfRange(written.lines[FirstFailing])
        THEN PortError(PortDigits(written.lines[FirstFailing]))
        ELSE SyntaxError

\* C7 amended: with more than one failing line, the error is the grammar's
\* syntax error when any line violates the grammar, wherever it is; when
\* none does, it is the port error of the earliest line whose port is out
\* of range.
C7_SyntaxErrorsFirst ==
    Done /\ written.nl /\ Cardinality(FailingLines) >= 2 =>
        IF \E i \in FailingLines : GrammarRejects(written.lines[i])
        THEN SyntaxError
        ELSE PortError(PortDigits(written.lines[FirstPortOutOfRange]))

\* C7 witness: an out-of-range port on an earlier line than a grammar
\* violation, and the syntax error returned
C7_Witness ==
    /\ SyntaxError /\ written.nl /\ Cardinality(FailingLines) >= 2
    /\ PortOutOfRange(written.lines[FirstFailing])

\* the lines before the last one parse and lower without error
EarlierLinesFine ==
    \A i \in 1..(Len(written.lines) - 1) :
        /\ ~Fails(written.lines[i])
        /\ ~IsBareLine(written.lines[i])
        /\ written.lines[i].k # "raw"

\* C8 as stated: without a newline after the final line (the earlier lines
\* being fine), parse_rules succeeds only when that line is empty or blank; a rule, a rule with a
\* trailing comment or a comment alone there is a syntax error.
C8_AsStated ==
    Done /\ written.lines # <<>> /\ ~written.nl /\ EarlierLinesFine =>
        /\ result.ok => LastLine.k = "blank"
        /\ IsRuleLine(LastLine) \/ LastLine.k = "comment" => SyntaxError

\* C8 amended: without a newline after the final line, parse_rules succeeds
\* only when that line is empty, blank or a comment alone, and then it does
\* succeed when the earlier lines are fine; a rule there, with or without a
\* trailing comment, is a syntax error.
C8_FinalLine ==
    Done /\ written.lines # <<>> /\ ~written.nl =>
        /\ result.ok => LastLine.k \in {"blank", "comment"}
        /\ IsRuleLine(LastLine) => SyntaxError
        /\ LastLine.k \in {"blank", "comment"} /\ EarlierLinesFine => result.ok

\* C8 witness: a file that ends in a comment without a newline was accepted
\* with the rules of its earlier lines
C8_Witness ==
    /\ Accepted /\ Len(written.lines) >= 2 /\ ~written.nl
    /\ LastLine.k = "comment" /\ result.val # <<>>

\* C9 as stated: a grammar-valid address line that repeats a clause kind is
\* accepted and every field holds the value of the last clause of its kind.
C9_AsStated ==
    Done /\ OneLine /\ IsAddressLine(TheLine) /\ SomeKindTwice(TheLine) =>
        result.ok /\ result.val = <<ExpectedAddress(TheLine)>>

\* C9 amended: the same for the lines whose port clauses are all at most
\* 65535.
C9_LastWins ==
    Done /\ OneLine /\ IsAddressLine(TheLine) /\ SomeKindTwice(TheLine)
         /\ PortsInRange(TheLine) =>
        result.ok /\ result.val = <<ExpectedAddress(TheLine)>>

\* C9 witness: two different ports with another clause between them, the
\* last one kept
C9_Witness ==
    /\ Accepted /\ OneLine
    /\ TheLine.k = "addr"
    /\ TheLine.clauses = <<Cl("port", N_22), Cl("from", K_internal), Cl("port", N_443)>>
    /\ result.val[1].port = <<443>>
    /\ result.val[1].from = <<[type |-> "internal"]>>

\* C10: the only message error parse_rules returns is the invalid port
\* value; every other failure is the grammar's.
C10_OnlyPortMessage ==
    Done /\ ~result.ok =>
        \/ result.err.kind = "Pest"
        \/ result.err.kind = "Message" /\ result.err.msg = "invalid port value"

\* C10 witness: lowering failed on a port the grammar accepted
C10_Witness == OneLine /\ TheLine.k = "svc" /\ PortError(<<"9", "9", "9", "9", "9">>)

====
